---- MODULE Spec2Model ----
(***************************************************************************)
(* A model of src/src/App.tsx, the Gantt planner: the lane packer           *)
(* (packLanes), the zoom-to-cursor handler (handleWheel), the view          *)
(* composer (allTasks, routeTasks, filtered, machinesToRender, routeRects), *)
(* the date normalizer (toDate), the file loader (onFile) and the row       *)
(* geometry (lanedByMachine, rowHeights, rowTops, bars).                    *)
(*                                                                         *)
(* Conventions.                                                            *)
(*  - A JavaScript string is a sequence of one-character strings, so that   *)
(*    trim, toLowerCase, includes and localeCompare are computed.           *)
(*  - A nullable value is a sequence of length at most one: <<>> is null    *)
(*    (or the empty string of a datetime-local input), <<v>> is v.          *)
(*  - Instants are milliseconds, as in the source (+date).                  *)
(*  - Lane indices are 0-based, as in the source.                           *)
(***************************************************************************)
EXTENDS Integers, Sequences, FiniteSets, TLC

\* ------------------------------------------------------------------ bounds
\* The lane packer's inputs: at most MaxTasks tasks on the instants
\* 0, Tick, ..., MaxTick * Tick.
MaxTasks == 3
MaxTick == 5

\* ------------------------------------------------------- program constants
EPS == 60000
Tick == EPS \div 2

\* ----------------------------------------------------------------- helpers
Min2(a, b) == IF a <= b THEN a ELSE b
Max2(a, b) == IF a >= b THEN a ELSE b

\* F applied to the value of a: `const v = a; F(v)`. The argument is
\* evaluated once, where it is bound, as a JavaScript const is.
Let1(F(_), a) == CHOOSE r \in {F(v) : v \in {a}} : TRUE
Let2(F(_, _), a, b) == CHOOSE r \in {F(v, w) : v \in {a}, w \in {b}} : TRUE

Range(f) == {f[i] : i \in DOMAIN f}

\* [...xs].sort(cmp) with cmp(a, b) < 0 iff Less(a, b). Array.prototype.sort
\* is stable: an element stays before the later elements that do not compare
\* less than it.
RECURSIVE InsertBy(_, _, _)
InsertBy(Less(_, _), x, sorted) ==
  IF sorted = <<>> THEN <<x>>
  ELSE IF ~Less(Head(sorted), x) THEN <<x>> \o sorted
  ELSE <<Head(sorted)>> \o InsertBy(Less, x, Tail(sorted))

RECURSIVE SortBy(_, _)
SortBy(Less(_, _), xs) ==
  IF xs = <<>> THEN <<>>
  ELSE Let1(LAMBDA rest : InsertBy(Less, Head(xs), rest), SortBy(Less, Tail(xs)))

\* xs.filter(x => keep has x)
RECURSIVE FilterSeq(_, _)
FilterSeq(xs, keep) ==
  IF xs = <<>> THEN <<>>
  ELSE (IF Head(xs) \in keep THEN <<Head(xs)>> ELSE <<>>)
       \o FilterSeq(Tail(xs), keep)

\* Array.from(new Set(xs)): the distinct elements in order of first occurrence.
RECURSIVE DistinctFrom(_, _)
DistinctFrom(xs, seen) ==
  IF xs = <<>> THEN <<>>
  ELSE IF Head(xs) \in seen THEN DistinctFrom(Tail(xs), seen)
  ELSE <<Head(xs)>> \o DistinctFrom(Tail(xs), seen \cup {Head(xs)})

Distinct(xs) == DistinctFrom(xs, {})

ByStart(a, b) == a.start < b.start

\* ------------------------------------------------------------ lane packing
\* const sorted = [...tasks].sort((a, b) => +a.start - +b.start)
SortByStartUnsorted(tasks) == tasks

SortByStart(tasks) == SortBy(ByStart, tasks)

\* for (let i = 0; i < laneEnds.length; i++)
\*   if (+t.start >= laneEnds[i] - EPS) { lane = i; break; }
\* The 0-based index of the first lane that fits, -1 when none does.
FirstFitStrict(laneEnds, t) ==
  LET fits == {i \in 1..Len(laneEnds) : t.start >= laneEnds[i]}
  IN  IF fits = {} THEN -1
      ELSE (CHOOSE i \in fits : \A j \in fits : i <= j) - 1

FirstFit(laneEnds, t) ==
  LET fits == {i \in 1..Len(laneEnds) : t.start >= laneEnds[i] - EPS}
  IN  IF fits = {} THEN -1
      ELSE (CHOOSE i \in fits : \A j \in fits : i <= j) - 1

\* a reused lane keeps the later of its recorded end and the task's end
PlaceOneKeepMax(acc, t, found) ==
  IF found = -1
  THEN [laneEnds |-> Append(acc.laneEnds, t.end),
        placed |-> Append(acc.placed, [task |-> t, lane |-> Len(acc.laneEnds)])]
  ELSE [laneEnds |-> [acc.laneEnds EXCEPT ![found + 1] = Max2(@, t.end)],
        placed |-> Append(acc.placed, [task |-> t, lane |-> found])]

\* if (lane === -1) { lane = laneEnds.length; laneEnds.push(+t.end); }
\* else { laneEnds[lane] = +t.end; }
\* placed.push({ ...t, lane });
PlaceOne(acc, t, found) ==
  IF found = -1
  THEN [laneEnds |-> Append(acc.laneEnds, t.end),
        placed |-> Append(acc.placed, [task |-> t, lane |-> Len(acc.laneEnds)])]
  ELSE [laneEnds |-> [acc.laneEnds EXCEPT ![found + 1] = t.end],
        placed |-> Append(acc.placed, [task |-> t, lane |-> found])]

\* for (const t of sorted) { ... }
RECURSIVE PackLoop(_, _)
PackLoop(sorted, acc) ==
  IF sorted = <<>> THEN acc
  ELSE Let2(LAMBDA t, a :
              Let1(LAMBDA next : PackLoop(Tail(sorted), next),
                   PlaceOne(a, t, FirstFit(a.laneEnds, t))),
            Head(sorted), acc)

\* return { placed, laneCount: laneEnds.length || 1 }
packLanes(tasks) ==
  Let1(LAMBDA r :
         [placed |-> r.placed,
          laneCount |-> IF Len(r.laneEnds) = 0 THEN 1 ELSE Len(r.laneEnds),
          laneEnds |-> r.laneEnds],
       PackLoop(SortByStart(tasks), [laneEnds |-> <<>>, placed |-> <<>>]))

\* ----------------------------------------------------------------- strings
\* String.prototype.toLowerCase, on the characters the model uses.
LowerChar(c) ==
  CASE c = "A" -> "a"
    [] c = "B" -> "b"
    [] c = "M" -> "m"
    [] OTHER -> c

toLowerCase(s) == [i \in 1..Len(s) |-> LowerChar(s[i])]

\* String.prototype.trim: leading and trailing white space removed.
RECURSIVE trimStart(_)
trimStart(s) ==
  IF s # <<>> /\ Head(s) = " " THEN trimStart(Tail(s)) ELSE s

RECURSIVE trimEnd(_)
trimEnd(s) ==
  IF s # <<>> /\ s[Len(s)] = " " THEN trimEnd(SubSeq(s, 1, Len(s) - 1)) ELSE s

trim(s) == trimEnd(trimStart(s))

\* String.prototype.includes
includes(s, q) ==
  \E i \in 0..(Len(s) - Len(q)) : SubSeq(s, i + 1, i + Len(q)) = q

\* a.localeCompare(b, "pl", { numeric: true }): runs of digits compare as
\* numbers, other characters by collation weight (space, then digits, then
\* letters, case ignored); strings equal so far differ by case, lower first.
IsDigit(c) == c \in {"0", "1", "2", "3", "4", "5", "6", "7", "8", "9"}

DigitValue(c) ==
  CASE c = "0" -> 0 [] c = "1" -> 1 [] c = "2" -> 2 [] c = "3" -> 3
    [] c = "4" -> 4 [] c = "5" -> 5 [] c = "6" -> 6 [] c = "7" -> 7
    [] c = "8" -> 8 [] c = "9" -> 9

CollationWeight(c) ==
  CASE c = " " -> 0
    [] IsDigit(c) -> 1 + DigitValue(c)
    [] LowerChar(c) = "a" -> 11
    [] LowerChar(c) = "b" -> 12
    [] LowerChar(c) = "m" -> 13
    [] OTHER -> 14

RECURSIVE DigitRun(_)
DigitRun(s) ==
  IF s # <<>> /\ IsDigit(Head(s)) THEN 1 + DigitRun(Tail(s)) ELSE 0

RECURSIVE NumberOf(_, _)
NumberOf(s, n) ==
  IF n = 0 THEN 0 ELSE 10 * NumberOf(s, n - 1) + DigitValue(s[n])

Sign(n) == IF n < 0 THEN -1 ELSE IF n > 0 THEN 1 ELSE 0

\* The rest of s after its first n characters.
Drop(s, n) == SubSeq(s, n + 1, Len(s))

RECURSIVE PrimaryCompare(_, _)
PrimaryCompare(a, b) ==
  IF a = <<>> \/ b = <<>> THEN Sign(Len(a) - Len(b))
  ELSE IF IsDigit(Head(a)) /\ IsDigit(Head(b)) THEN
    Let2(LAMBDA na, nb :
           Let1(LAMBDA d :
                  IF d # 0 THEN d
                  ELSE Let2(LAMBDA ra, rb : PrimaryCompare(ra, rb),
                            Drop(a, na), Drop(b, nb)),
                Sign(NumberOf(a, na) - NumberOf(b, nb))),
         DigitRun(a), DigitRun(b))
  ELSE
    Let1(LAMBDA d : IF d # 0 THEN d ELSE PrimaryCompare(Tail(a), Tail(b)),
         Sign(CollationWeight(Head(a)) - CollationWeight(Head(b))))

RECURSIVE CaseCompare(_, _)
CaseCompare(a, b) ==
  IF a = <<>> \/ b = <<>> THEN 0
  ELSE IF Head(a) = Head(b) THEN CaseCompare(Tail(a), Tail(b))
  ELSE IF LowerChar(Head(a)) = Head(a) THEN -1 ELSE 1

localeCompare(a, b) ==
  Let1(LAMBDA p : IF p # 0 THEN p ELSE CaseCompare(a, b), PrimaryCompare(a, b))

\* ------------------------------------------------------------------- state
VARIABLES
  rawRows,           \* useState([]): the parsed rows, header -> cell
  mapping,           \* useState({id, start, end, resource, qty}): header or null
  query,             \* useState(""): the identifier search box
  pxPerHour,         \* useState(110): the scale
  selectedMachines,  \* useState(new Set()): a Set iterates in insertion order
  fromStr,           \* useState(""): <<>> is "", <<t>> a datetime-local string
  toStr,             \*   denoting the instant t
  renderedPxPerHour, \* the pxPerHour the rendered handleWheel closure holds
  scrollLeft,        \* scrollRef.current.scrollLeft, in PxUnit-ths of a pixel
  lastWheel,         \* <<>>, or <<what the last handleWheel call read and computed>>
  wheelCount,        \* number of ctrl+wheel events so far
  now,               \* Date.now() as read by the render that computed the domain
  packIn,            \* the task list handed to packLanes, in input order
  packOut,           \* <<>> before the call, <<result>> after it
  dateIn,            \* the numeric value handed to toDate
  dateOut,           \* <<>> before the call, <<result>> after it
  alerts,            \* number of alert() calls so far
  lastParse          \* <<>>, or <<what Papa.parse last handed to a callback>>

dataVars == <<rawRows, mapping>>
viewVars == <<query, selectedMachines, fromStr, toStr>>
zoomVars == <<pxPerHour, renderedPxPerHour, scrollLeft, lastWheel, wheelCount>>
packVars == <<packIn, packOut>>
dateVars == <<dateIn, dateOut>>
loadVars == <<alerts, lastParse>>
vars == <<rawRows, mapping, query, pxPerHour, selectedMachines, fromStr, toStr,
          renderedPxPerHour, scrollLeft, lastWheel, wheelCount, now,
          packIn, packOut, dateIn, dateOut, alerts, lastParse>>

\* -------------------------------------------------------------- normalizer
\* +d of an Invalid Date is NaN: a value no instant of the model takes. Every
\* comparison with it is false.
NaN == 0 - 2147483647

\* A numeric cell is sign * (hi * Limb + lo) with 0 <= lo < Limb, so that
\* values around 10_000_000_000 and the largest time value are representable.
Limb == 10000 * 10000

Num(sign, hi, lo) == [sign |-> sign, hi |-> hi, lo |-> lo]

\* |n| <= hi * Limb + lo
MagLe(n, hi, lo) == n.hi < hi \/ (n.hi = hi /\ n.lo <= lo)

\* val <= 10_000_000_000
BelowThresholdInclusive(n) == n.sign < 0 \/ MagLe(n, 100, 0)

\* val < 10_000_000_000
BelowThreshold(n) == n.sign < 0 \/ n.hi < 100

\* val * 1000
Times1000(n) ==
  [sign |-> n.sign,
   hi |-> n.hi * 1000 + n.lo \div 100000,
   lo |-> (n.lo % 100000) * 1000]

InvalidDate == [valid |-> FALSE, time |-> Num(1, 0, 0)]

\* new Date(ms): the time value ms, or an Invalid Date when |ms| exceeds
\* 8.64e15 (the range of a Date).
NewDate(ms) ==
  IF MagLe(ms, 86400000, 0) THEN [valid |-> TRUE, time |-> ms] ELSE InvalidDate

\* new Date(val * 1000); |val * 1000| <= 8.64e15 iff |val| <= 8.64e12
NewDateOfSeconds(n) ==
  IF MagLe(n, 86400, 0) THEN NewDate(Times1000(n)) ELSE InvalidDate

\* toDate on a number: below 10_000_000_000 seconds, else milliseconds.
toDateNumber(n) ==
  IF BelowThreshold(n) THEN NewDateOfSeconds(n) ELSE NewDate(n)

\* +d of a Date built from a number, as an instant of the model.
TimeValue(d) ==
  IF d.valid THEN d.time.sign * (d.time.hi * Limb + d.time.lo) ELSE NaN

\* toDate(val), as a nullable: <<>> is null, <<t>> a Date with +d = t.
\* A cell is what Papa.parse with dynamicTyping hands over:
\*   [kind |-> "date", time |-> t]      a Date (t = NaN when it is invalid),
\*                                     passed through unchecked;
\*   [kind |-> "number", num |-> n]     a number;
\*   [kind |-> "string", parsed |-> p]  a string, modelled by the outcome of
\*                                     the first format that parses it: <<t>>
\*                                     (always a valid instant) or <<>>;
\*   any other kind (null, boolean)     gives null.
toDate(val) ==
  CASE val.kind = "date" -> <<val.time>>
    [] val.kind = "number" -> <<TimeValue(toDateNumber(val.num))>>
    [] val.kind = "string" -> val.parsed
    [] OTHER -> <<>>

\* const timeFrom = fromStr ? toDate(fromStr) : null (and timeTo)
timeFrom ==
  IF fromStr = <<>> THEN <<>> ELSE toDate([kind |-> "string", parsed |-> fromStr])

timeTo ==
  IF toStr = <<>> THEN <<>> ELSE toDate([kind |-> "string", parsed |-> toStr])

\* The sort of allTasks: resource (natural), then start, then id (natural).
\* +a.start - +b.start is NaN, hence falsy, when either start is invalid.
CanonicalLess(a, b) ==
  Let1(LAMBDA r :
         \/ r < 0
         \/ r = 0 /\ a.start # NaN /\ b.start # NaN /\ a.start < b.start
         \/ r = 0 /\ (a.start = NaN \/ b.start = NaN \/ a.start = b.start)
                  /\ localeCompare(a.id, b.id) < 0,
       localeCompare(a.resource, b.resource))

\* One row of the loop of allTasks: <<task>>, or <<>> when the row is skipped
\* (`continue`). String(r[col] ?? "").trim(): a cell is its text.
RowTask(r, map) ==
  Let2(LAMBDA id, resource :
         Let2(LAMBDA start, end :
                IF \/ id = <<>> \/ resource = <<>> \/ start = <<>> \/ end = <<>>
                   \/ (end[1] # NaN /\ start[1] # NaN /\ end[1] <= start[1])
                THEN <<>>
                ELSE <<[id |-> id, resource |-> resource,
                        start |-> start[1], end |-> end[1]]>>,
              toDate(r[map.start[1]]), toDate(r[map.end[1]])),
       trim(r[map.id[1]]), trim(r[map.resource[1]]))

RECURSIVE RowTasks(_, _)
RowTasks(rows, map) ==
  IF rows = <<>> THEN <<>>
  ELSE RowTask(Head(rows), map) \o RowTasks(Tail(rows), map)

allTasks ==
  IF \/ Len(rawRows) = 0 \/ mapping.id = <<>> \/ mapping.start = <<>>
     \/ mapping.end = <<>> \/ mapping.resource = <<>>
  THEN <<>>
  ELSE Let1(LAMBDA out : SortBy(CanonicalLess, out), RowTasks(rawRows, mapping))

\* ---------------------------------------------------------- view composer
Resources(tasks) == [i \in 1..Len(tasks) |-> tasks[i].resource]

NaturalLess(a, b) == localeCompare(a, b) < 0

MachinesOf(all) ==
  Let1(LAMBDA set : SortBy(NaturalLess, set), Distinct(Resources(all)))

machinesAll == Let1(LAMBDA all : MachinesOf(all), allTasks)

\* routeTasks: exact matches of the trimmed query if any, else substring
\* matches, sorted by start.
ExactMatches(all, ql) == {t \in Range(all) : toLowerCase(t.id) = ql}

PartMatches(all, ql) == {t \in Range(all) : includes(toLowerCase(t.id), ql)}

RouteOfSubstringFirst(all, q) ==
  IF q = <<>> THEN <<>>
  ELSE Let1(LAMBDA part : SortByStart(FilterSeq(all, part)),
            PartMatches(all, toLowerCase(q)))

RouteOf(all, q) ==
  IF q = <<>> THEN <<>>
  ELSE Let2(LAMBDA exact, part :
              IF exact # {} THEN Let1(SortByStart, FilterSeq(all, exact))
              ELSE Let1(SortByStart, FilterSeq(all, part)),
            ExactMatches(all, toLowerCase(q)), PartMatches(all, toLowerCase(q)))

routeTasks == Let2(RouteOf, allTasks, trim(query))

\* intersects(t) of filtered
IntersectsClosed(t, from, to) ==
  /\ ~(from # <<>> /\ t.end < from[1])
  /\ ~(to # <<>> /\ t.start > to[1])

Intersects(t, from, to) ==
  /\ ~(from # <<>> /\ t.end <= from[1])
  /\ ~(to # <<>> /\ t.start >= to[1])

intersects(t) == Intersects(t, timeFrom, timeTo)

\* the selection left out of the filter
BySelectionOff(base, selection) == base

\* base.filter((t) => selectedMachines.has(t.resource)), when the set is not
\* empty
BySelection(base, selection) ==
  IF Len(selection) > 0
  THEN FilterSeq(base, {t \in Range(base) : t.resource \in Range(selection)})
  ELSE base

\* base.filter((t) => t.id.toLowerCase().includes(query.toLowerCase())), when
\* no route is active and the query is not empty
ByQuery(base, route, q) ==
  IF route = <<>> /\ q # <<>>
  THEN FilterSeq(base, {t \in Range(base) :
                          includes(toLowerCase(t.id), toLowerCase(q))})
  ELSE base

ByWindow(base, from, to) ==
  FilterSeq(base, {t \in Range(base) : Intersects(t, from, to)})

FilteredOf(all, route) ==
  Let1(LAMBDA base1 :
         Let1(LAMBDA base2 : ByWindow(base2, timeFrom, timeTo),
              ByQuery(base1, route, query)),
       BySelection(IF route # <<>> THEN route ELSE all, selectedMachines))

filtered == Let2(FilteredOf, allTasks, routeTasks)

\* lanedByMachine: for every resource with a filtered task, the packed tasks
\* of that resource (packLanes on the group, in filtered order).
LanedOf(shown) ==
  [res \in Range(Resources(shown)) |->
     packLanes(FilterSeq(shown, {t \in Range(shown) : t.resource = res}))]

lanedByMachine == Let1(LanedOf, filtered)

routeMachines == Let1(LAMBDA route : Distinct(Resources(route)), routeTasks)

MachinesToRenderOf(route, selection, universe) ==
  IF route # <<>> THEN Distinct(Resources(route))
  ELSE IF Len(selection) > 0
       THEN FilterSeq(selection, Range(universe))
  ELSE universe

machinesToRender ==
  Let2(LAMBDA route, universe :
         MachinesToRenderOf(route, selectedMachines, universe),
       routeTasks, machinesAll)

\* routeRects, without the pixel geometry: one rect per route task whose
\* resource has a layout, with the lane of the placed task found for it
\* (placed?.lane ?? 0), sorted by start.
LaneIn(placed, t) ==
  LET found == {i \in 1..Len(placed) : placed[i].task = t}
  IN  IF found = {} THEN 0
      ELSE placed[CHOOSE i \in found : \A j \in found : i <= j].lane

RECURSIVE RouteRectsLoop(_, _)
RouteRectsLoop(route, laned) ==
  IF route = <<>> THEN <<>>
  ELSE (IF Head(route).resource \in DOMAIN laned
        THEN <<[id |-> Head(route).id, resource |-> Head(route).resource,
                start |-> Head(route).start, end |-> Head(route).end,
                lane |-> LaneIn(laned[Head(route).resource].placed, Head(route))]>>
        ELSE <<>>)
       \o RouteRectsLoop(Tail(route), laned)

RouteRectsOf(route, laned) ==
  IF route = <<>> THEN <<>>
  ELSE Let1(SortByStart, RouteRectsLoop(route, laned))

routeRects == Let2(RouteRectsOf, routeTasks, lanedByMachine)

\* The overlay: a connector from routeRects[i-1] to routeRects[i] for every
\* i >= 1 (0-based), drawn only when routeRects.length >= 2.
ConnectorsOf(rects) ==
  IF Len(rects) >= 2
  THEN [i \in 1..(Len(rects) - 1) |-> [from |-> rects[i], to |-> rects[i + 1]]]
  ELSE <<>>

connectors == Let1(ConnectorsOf, routeRects)

\* computedMinMax: the domain of the time axis.
Hour == 60 * 60 * 1000

RECURSIVE MinStart(_)
MinStart(tasks) ==
  IF Len(tasks) = 1 THEN tasks[1].start
  ELSE Let1(LAMBDA m : Min2(tasks[1].start, m), MinStart(Tail(tasks)))

RECURSIVE MaxEnd(_)
MaxEnd(tasks) ==
  IF Len(tasks) = 1 THEN tasks[1].end
  ELSE Let1(LAMBDA m : Max2(tasks[1].end, m), MaxEnd(Tail(tasks)))

\* the window bounds left out of the domain
MinMaxOfTasksOnly(src, from, to) ==
  IF src = <<>>
  THEN [min |-> IF from # <<>> THEN from[1] ELSE now - 12 * Hour,
        max |-> IF to # <<>> THEN to[1] ELSE now + 12 * Hour]
  ELSE Let2(LAMBDA min0, max0 : [min |-> min0 - Hour, max |-> max0 + Hour],
            MinStart(src), MaxEnd(src))

MinMaxOf(src, from, to) ==
  IF src = <<>>
  THEN [min |-> IF from # <<>> THEN from[1] ELSE now - 12 * Hour,
        max |-> IF to # <<>> THEN to[1] ELSE now + 12 * Hour]
  ELSE Let2(LAMBDA min0, max0 :
              [min |-> (IF from # <<>> THEN Min2(min0, from[1]) ELSE min0) - Hour,
               max |-> (IF to # <<>> THEN Max2(max0, to[1]) ELSE max0) + Hour],
            MinStart(src), MaxEnd(src))

computedMinMax ==
  Let1(LAMBDA shown :
         IF shown # <<>> THEN MinMaxOf(shown, timeFrom, timeTo)
         ELSE Let1(LAMBDA all : MinMaxOf(all, timeFrom, timeTo), allTasks),
       filtered)

\* ------------------------------------------------------------ row geometry
baseLane == 26
laneGap == 6
rowPadY == 10

\* w > px for w = Math.max(4, (+p.end - +p.start) * pxPerMs) and px > 4:
\* (end - start) * scale / 3_600_000 > px, in integers.
WiderThan(t, scale, px) == (t.end - t.start) > (px * Hour) \div scale

\* const h = w > 220 ? 40 : w > 120 ? 32 : baseLane
BarHeight(t, scale) ==
  IF WiderThan(t, scale, 220) THEN 40
  ELSE IF WiderThan(t, scale, 120) THEN 32
  ELSE baseLane

SetMax(S) == CHOOSE m \in S : \A x \in S : x <= m

\* laneHeights[p.lane] = Math.max(laneHeights[p.lane] || baseLane, h), over
\* the placed tasks; lane i is element i + 1.
LaneHeightsOf(placed, scale) ==
  [i \in 1..(SetMax({0} \cup {placed[k].lane + 1 : k \in DOMAIN placed})) |->
     SetMax({baseLane} \cup {BarHeight(placed[k].task, scale) :
                               k \in {j \in DOMAIN placed : placed[j].lane = i - 1}})]

\* laneTops[i] = acc; acc += (laneHeights[i] || baseLane) + laneGap
RECURSIVE LaneTopsFrom(_, _)
LaneTopsFrom(heights, acc) ==
  IF heights = <<>> THEN <<>>
  ELSE <<acc>> \o LaneTopsFrom(Tail(heights), acc + Head(heights) + laneGap)

\* the loop runs (laneHeights.length || 1) times
LaneTopsOf(heights) ==
  LaneTopsFrom(IF heights = <<>> THEN <<baseLane>> ELSE heights, rowPadY)

RECURSIVE SumSeq(_)
SumSeq(xs) == IF xs = <<>> THEN 0 ELSE Head(xs) + SumSeq(Tail(xs))

\* totalHeight = acc - laneGap + rowPadY
TotalHeightOf(heights) ==
  Let1(LAMBDA hs : rowPadY + SumSeq(hs) + laneGap * Len(hs) - laneGap + rowPadY,
       IF heights = <<>> THEN <<baseLane>> ELSE heights)

\* map.set(res, { tasks: placed, laneHeights, laneTops, totalHeight })
LayoutsOf(laned, scale) ==
  [res \in DOMAIN laned |->
     Let1(LAMBDA hs : [tasks |-> laned[res].placed,
                       laneHeights |-> hs,
                       laneTops |-> LaneTopsOf(hs),
                       totalHeight |-> TotalHeightOf(hs)],
          LaneHeightsOf(laned[res].placed, scale))]

\* The layout of the last render: pxPerMs is that render's pxPerHour.
layouts == Let1(LAMBDA laned : LayoutsOf(laned, renderedPxPerHour), lanedByMachine)

\* rowHeights: lanedByMachine.get(r)?.totalHeight || (rowPadY*2 + baseLane),
\* for the resources to render, in their order.
RowHeightsOf(machines, lay) ==
  [k \in DOMAIN machines |->
     IF machines[k] \in DOMAIN lay THEN lay[machines[k]].totalHeight
     ELSE rowPadY * 2 + baseLane]

rowHeights == Let2(RowHeightsOf, machinesToRender, layouts)

\* rowTops: map.set(r, y); y += rowHeights.get(r)
RECURSIVE RowTopsFrom(_, _)
RowTopsFrom(heights, y) ==
  IF heights = <<>> THEN <<>>
  ELSE <<y>> \o RowTopsFrom(Tail(heights), y + Head(heights))

rowTops == Let1(LAMBDA hs : RowTopsFrom(hs, 0), rowHeights)

\* The bars drawn: for each resource to render, each placed task of its
\* layout with top = baseTop + laneTops[lane] and barH = laneHeights[lane].
BarsOf(machines, lay, tops) ==
  UNION {{[row |-> k, lane |-> lay[machines[k]].tasks[i].lane,
           task |-> lay[machines[k]].tasks[i].task,
           top |-> tops[k] + lay[machines[k]].laneTops[lay[machines[k]].tasks[i].lane + 1],
           barH |-> lay[machines[k]].laneHeights[lay[machines[k]].tasks[i].lane + 1]] :
            i \in DOMAIN lay[machines[k]].tasks} :
         k \in {j \in DOMAIN machines : machines[j] \in DOMAIN lay}}

bars ==
  Let2(LAMBDA machines, lay : BarsOf(machines, lay, rowTops),
       machinesToRender, layouts)

\* ------------------------------------------------------- coordinate mapper
\* Pixel lengths are fractions in the source (IEEE doubles). The model counts
\* them in PxUnit-ths of a pixel and counts the handler's time offsets in
\* PxUnit-ths of a second, rounding every quotient down: a result is within
\* 2 / PxUnit of a pixel of the real quotient, against 1e-9 for a double.
PxUnit == 10 * 10
MsPerUnit == 1000 \div PxUnit

\* (instant - origin) * pxPerMs with pxPerMs = scale / 3,600,000
PixelOf(origin, instant, scale) ==
  (((instant - origin) \div MsPerUnit) * scale) \div 3600

\* (instant - computedMinMax.min) * pxPerMs, the left edge of whatever is
\* drawn at `instant` at `scale` pixels per hour.
TimeToPixel(instant, scale) == PixelOf(computedMinMax.min, instant, scale)

\* Math.round(pxPerHour * factor), factor 0.9 (deltaY > 0) or 1.1: the
\* double 0.9 and the double 1.1 both lie above the decimal, so a product
\* ending in .5 rounds up, as Math.round rounds an exact half.
ZoomProduct(scale, deltaYPositive) ==
  IF deltaYPositive THEN (9 * scale + 5) \div 10 ELSE (11 * scale + 5) \div 10

\* Math.max(30, Math.min(300, n))
ClampScale(n) == Max2(30, Min2(300, n))

\* anchorXNext - xRel, before the floor at zero
NewScrollFromX(anchorXNext, xRel, x) == anchorXNext - x

NewScroll(anchorXNext, xRel, x) == anchorXNext - xRel

\* What one call of handleWheel (ctrl held, scrollRef set) reads and computes.
\* pxPerHour is the value the closure of the last render holds.
WheelCalcAt(origin, xRel, deltaYPositive) ==
  LET x == xRel + scrollLeft
      offset == (x * 3600) \div renderedPxPerHour
      anchorTime == origin + offset * MsPerUnit
      raw == ZoomProduct(renderedPxPerHour, deltaYPositive)
      next == ClampScale(raw)
      anchorXNext == (((anchorTime - origin) \div MsPerUnit) * next) \div 3600
      unfloored == NewScroll(anchorXNext, xRel, x)
  IN  [xRel |-> xRel, deltaYPositive |-> deltaYPositive,
       scrollBefore |-> scrollLeft,
       readScale |-> renderedPxPerHour, latestScale |-> pxPerHour,
       domainMin |-> origin,
       anchorTime |-> anchorTime, raw |-> raw, next |-> next,
       changed |-> next # renderedPxPerHour,
       unfloored |-> unfloored,
       newScrollLeft |-> Max2(0, unfloored)]

WheelCalc(xRel, deltaYPositive) ==
  Let1(LAMBDA mm : WheelCalcAt(mm.min, xRel, deltaYPositive), computedMinMax)

\* ------------------------------------------- the lane packer on its inputs
Instants == {k * Tick : k \in 0..MaxTick}

\* A task of one resource: end > start (allTasks admits no other).
PackTasks ==
  {[id |-> <<"1">>, resource |-> <<"M">>, start |-> s, end |-> e] :
     <<s, e>> \in {p \in Instants \X Instants : p[2] > p[1]}}

PackInputs == UNION {[1..n -> PackTasks] : n \in 0..MaxTasks}

\* The state after construction (the useState initial values).
Constructed ==
  /\ rawRows = <<>>
  /\ mapping = [id |-> <<>>, start |-> <<>>, end |-> <<>>,
                resource |-> <<>>, qty |-> <<>>]
  /\ query = <<>>
  /\ pxPerHour = 110
  /\ renderedPxPerHour = 110
  /\ selectedMachines = <<>>
  /\ fromStr = <<>>
  /\ toStr = <<>>
  /\ scrollLeft = 0
  /\ lastWheel = <<>>
  /\ wheelCount = 0
  /\ now = 12 * Hour
  /\ alerts = 0
  /\ lastParse = <<>>

InitPack ==
  /\ Constructed
  /\ packIn \in PackInputs
  /\ packOut = <<>>
  /\ dateIn = <<>>
  /\ dateOut = <<>>

RunPackLanes ==
  /\ packOut = <<>>
  /\ packOut' = <<packLanes(packIn)>>
  /\ UNCHANGED <<packIn, dataVars, viewVars, zoomVars, now, dateVars, loadVars>>

NextPack == RunPackLanes

SpecPack == InitPack /\ [][NextPack]_vars

\* ----------------------------------------------------------------- loading
\* String(h).toLowerCase() of a header, on the headers the model uses.
lowerHeader(h) ==
  CASE h = "Order No." -> "order no."
    [] h = "ID" -> "id"
    [] h = "Start Time" -> "start time"
    [] h = "End Time" -> "end time"
    [] h = "Resource" -> "resource"
    [] h = "Maszyna" -> "maszyna"
    [] h = "Qty." -> "qty."
    [] OTHER -> h

\* matchers[type]: for each regular expression, in order, the headers of the
\* model it matches.
matchers(type) ==
  CASE type = "id" -> <<{"Order No."}, {"ID"}, {}, {}, {}>>
    [] type = "start" -> <<{"Start Time"}, {"Start Time"}, {}, {}, {}>>
    [] type = "end" -> <<{"End Time"}, {"End Time"}, {}, {}, {}>>
    [] type = "resource" -> <<{"Resource"}, {"Maszyna"}, {}, {}, {}, {}>>
    [] type = "qty" -> <<{"Qty."}, {}, {}>>

\* headers.find(pred): the first header satisfying it, as a nullable.
FindFirst(headers, matching) ==
  LET hits == {i \in 1..Len(headers) : headers[i] \in matching}
  IN  IF hits = {} THEN <<>>
      ELSE <<headers[CHOOSE i \in hits : \A j \in hits : i <= j]>>

detectColumn(headers, type) ==
  LET regs == matchers(type)
      hit == {k \in 1..Len(regs) : FindFirst(headers, regs[k]) # <<>>}
  IN  IF hit = {} THEN <<>>
      ELSE FindFirst(headers, regs[CHOOSE k \in hit : \A j \in hit : k <= j])

\* pick(wanted, type): map.get(lower(wanted)) || detectColumn(headers, type),
\* map holding for each lowered header the last header with it.
pick(headers, wanted, type) ==
  LET same == {i \in 1..Len(headers) : lowerHeader(headers[i]) = lowerHeader(wanted)}
  IN  IF same # {} THEN <<headers[CHOOSE i \in same : \A j \in same : i >= j]>>
      ELSE detectColumn(headers, type)

\* A parsed row of a file with the headers Order No., Resource, Start Time,
\* End Time whose dates parse to the instants s and e.
Row(id, resource, s, e) ==
  ("Order No." :> id) @@ ("Resource" :> resource)
  @@ ("Start Time" :> [kind |-> "string", parsed |-> <<s>>])
  @@ ("End Time" :> [kind |-> "string", parsed |-> <<e>>])

PlainHeaders == <<"Order No.", "Resource", "Start Time", "End Time">>

\* onFile, the `complete` callback of Papa.parse: res.data and res.meta.fields
\* are used, res.errors (file.errors: whether it is non-empty) is not read.
OnFile(file) ==
  /\ rawRows' = file.data
  /\ mapping' = [id |-> pick(file.fields, "Order No.", "id"),
                 start |-> pick(file.fields, "Start Time", "start"),
                 end |-> pick(file.fields, "End Time", "end"),
                 resource |-> pick(file.fields, "Resource", "resource"),
                 qty |-> pick(file.fields, "Qty.", "qty")]
  /\ lastParse' = <<[callback |-> "complete", errors |-> file.errors]>>
  /\ UNCHANGED <<viewVars, zoomVars, now, packVars, dateVars, alerts>>

\* -------------------------------------------------------------------- zoom
\* Bounds of the zoom model: the number of ctrl+wheel events.
MaxWheel == 3

\* Cursor positions (e.clientX - rect.left) and user scroll offsets, in pixels.
CursorXs == {0, 400}
UserScrolls == {1000}
SliderValues == {35, 295}

\* handleWheel with e.ctrlKey set and scrollRef.current present.
HandleWheel(xRel, deltaYPositive) ==
  \E w \in {WheelCalc(xRel, deltaYPositive)} :
      /\ wheelCount < MaxWheel
      /\ wheelCount' = wheelCount + 1
      /\ lastWheel' = <<w>>
      /\ IF w.changed
         THEN /\ pxPerHour' = w.next
              /\ scrollLeft' = w.newScrollLeft
         ELSE UNCHANGED <<pxPerHour, scrollLeft>>
      /\ UNCHANGED <<renderedPxPerHour, dataVars, viewVars, now, packVars, dateVars, loadVars>>

\* React renders the component again: handleWheel is a new closure over the
\* current pxPerHour. setPxPerHour only schedules this render.
Render ==
  /\ renderedPxPerHour # pxPerHour
  /\ renderedPxPerHour' = pxPerHour
  /\ UNCHANGED <<pxPerHour, scrollLeft, lastWheel, wheelCount,
                 dataVars, viewVars, now, packVars, dateVars, loadVars>>

\* The range input (min 30, max 300): setPxPerHour(parseInt(value, 10)). A
\* change event is discrete: React renders before the next event is handled.
SliderChange(v) ==
  /\ pxPerHour' = v
  /\ renderedPxPerHour' = v
  /\ UNCHANGED <<scrollLeft, lastWheel, wheelCount,
                 dataVars, viewVars, now, packVars, dateVars, loadVars>>

\* The user scrolls the chart container.
UserScroll(s) ==
  /\ scrollLeft' = s
  /\ UNCHANGED <<pxPerHour, renderedPxPerHour, lastWheel, wheelCount,
                 dataVars, viewVars, now, packVars, dateVars, loadVars>>

ZoomFile ==
  [fields |-> PlainHeaders, errors |-> FALSE,
   data |-> <<Row(<<"1", "0", "0">>, <<"M", "2">>, 2 * Hour, 4 * Hour)>>]

InitZoom ==
  /\ Constructed
  /\ packIn = <<>>
  /\ packOut = <<>>
  /\ dateIn = <<>>
  /\ dateOut = <<>>

NextZoom ==
  \/ OnFile(ZoomFile)
  \/ \E xRel \in CursorXs, d \in BOOLEAN : HandleWheel(xRel * PxUnit, d)
  \/ Render
  \/ \E v \in SliderValues : SliderChange(v)
  \/ \E s \in UserScrolls : UserScroll(s * PxUnit)

SpecZoom == InitZoom /\ [][NextZoom]_vars

\* -------------------------------------------------------------------- view
\* Bound of the view model: the number of rows of a loaded file.
MaxRows == 3

\* The rows files are made of. Identifiers a1 and A10: a1 is a substring of
\* A10 ignoring case. Resources M2, M10 and A: M2 sorts before M10 only
\* when digits compare as numbers.
ViewRowPool ==
  {Row(<<"a", "1">>, <<"M", "2">>, 0, 2 * Hour),
   Row(<<"a", "1">>, <<"M", "2">>, 3 * Hour, 5 * Hour),
   Row(<<"a", "1">>, <<"M", "1", "0">>, 2 * Hour, 3 * Hour),
   Row(<<"A", "1", "0">>, <<"M", "1", "0">>, Hour, 4 * Hour),
   Row(<<"a", "1">>, <<"A">>, 5 * Hour, 6 * Hour)}

ViewFiles ==
  {[fields |-> PlainHeaders, data |-> d, errors |-> FALSE] :
     d \in UNION {[1..n -> ViewRowPool] : n \in 0..MaxRows}}

\* Files loaded over an open session.
ReloadFiles ==
  {[fields |-> PlainHeaders, data |-> d, errors |-> FALSE] :
     d \in {<<>>, <<Row(<<"a", "1">>, <<"M", "2">>, 0, 2 * Hour)>>}}

Queries ==
  {<<>>, <<"A", "1">>, <<" ", "a", "1", " ">>, <<"a">>, <<"m">>, <<" ">>}

WindowInstants == {2 * Hour}
WindowEnds == {3 * Hour}

\* The search box: setQuery(e.target.value)
SetQuery(q) ==
  /\ query' = q
  /\ UNCHANGED <<selectedMachines, fromStr, toStr, dataVars, zoomVars, now, packVars, dateVars, loadVars>>

\* machinesList with the machine search box empty: machinesAll
machinesList == machinesAll

\* A machine button: the Set with r deleted if present, else added last.
ToggleMachine(r) ==
  /\ r \in Range(machinesList)
  /\ selectedMachines' =
       IF r \in Range(selectedMachines)
       THEN FilterSeq(selectedMachines, Range(selectedMachines) \ {r})
       ELSE Append(selectedMachines, r)
  /\ UNCHANGED <<query, fromStr, toStr, dataVars, zoomVars, now, packVars, dateVars, loadVars>>

\* "Zaznacz widoczne": setSelectedMachines(new Set(machinesList))
SelectVisible ==
  /\ selectedMachines' = machinesList
  /\ UNCHANGED <<query, fromStr, toStr, dataVars, zoomVars, now, packVars, dateVars, loadVars>>

\* "Wyczysc wybor": setSelectedMachines(new Set())
ClearSelection ==
  /\ selectedMachines' = <<>>
  /\ UNCHANGED <<query, fromStr, toStr, dataVars, zoomVars, now, packVars, dateVars, loadVars>>

\* The datetime-local inputs: setFromStr(e.target.value), setToStr(...)
SetFromStr(v) ==
  /\ fromStr' = v
  /\ UNCHANGED <<query, selectedMachines, toStr, dataVars, zoomVars, now, packVars, dateVars, loadVars>>

SetToStr(v) ==
  /\ toStr' = v
  /\ UNCHANGED <<query, selectedMachines, fromStr, dataVars, zoomVars, now, packVars, dateVars, loadVars>>

\* "Wyczysc", rendered only when fromStr || toStr
ClearRange ==
  /\ fromStr # <<>> \/ toStr # <<>>
  /\ fromStr' = <<>>
  /\ toStr' = <<>>
  /\ UNCHANGED <<query, selectedMachines, dataVars, zoomVars, now, packVars, dateVars, loadVars>>

\* The session after a first file was loaded.
InitView ==
  /\ \E f \in ViewFiles :
       /\ rawRows = f.data
       /\ mapping = [id |-> pick(f.fields, "Order No.", "id"),
                     start |-> pick(f.fields, "Start Time", "start"),
                     end |-> pick(f.fields, "End Time", "end"),
                     resource |-> pick(f.fields, "Resource", "resource"),
                     qty |-> pick(f.fields, "Qty.", "qty")]
  /\ query = <<>>
  /\ pxPerHour = 110
  /\ renderedPxPerHour = 110
  /\ selectedMachines = <<>>
  /\ fromStr = <<>>
  /\ toStr = <<>>
  /\ scrollLeft = 0
  /\ lastWheel = <<>>
  /\ wheelCount = 0
  /\ now = 12 * Hour
  /\ packIn = <<>>
  /\ packOut = <<>>
  /\ dateIn = <<>>
  /\ dateOut = <<>>
  /\ alerts = 0
  /\ lastParse = <<[callback |-> "complete", errors |-> FALSE]>>

NextView ==
  \/ \E f \in ReloadFiles : OnFile(f)
  \/ \E q \in Queries : SetQuery(q)
  \/ \E r \in Range(machinesList) : ToggleMachine(r)
  \/ SelectVisible
  \/ ClearSelection
  \/ \E t \in WindowInstants : SetFromStr(<<t>>)
  \/ \E t \in WindowEnds : SetToStr(<<t>>)
  \/ SetFromStr(<<>>)
  \/ SetToStr(<<>>)
  \/ ClearRange

SpecView == InitView /\ [][NextView]_vars

\* ------------------------------------------------- toDate on its numbers
\* Numbers around zero, the seconds/milliseconds threshold 10_000_000_000,
\* the ends of the range of a Date (8.64e15 ms) and up to 2^53.
DateNumbers ==
  {Num(sign, hi, lo) :
     sign \in {1, -1},
     hi \in {0, 17, 99, 100, 17000, 86400, 86400000, 87000000},
     lo \in {0, 1, 3600, 99999999}}
  \ {Num(-1, 0, 0)}

InitDate ==
  /\ Constructed
  /\ packIn = <<>>
  /\ packOut = <<>>
  /\ dateIn \in DateNumbers
  /\ dateOut = <<>>

RunToDate ==
  /\ dateOut = <<>>
  /\ dateOut' = <<toDateNumber(dateIn)>>
  /\ UNCHANGED <<dateIn, dataVars, viewVars, zoomVars, now, packVars, loadVars>>

NextDate == RunToDate

SpecDate == InitDate /\ [][NextDate]_vars

\* ------------------------------------------------------- loading, row by row
\* Bounds of the loading model: rows per file, alert() calls.
MaxLoadRows == 2
MaxAlerts == 1

StringCell(p) == [kind |-> "string", parsed |-> p]
NumberCell(n) == [kind |-> "number", num |-> n]
DateCell(t) == [kind |-> "date", time |-> t]
NullCell == [kind |-> "null"]

\* A parsed row of a file whose identifier and resource columns are headed
\* idHeader and resHeader.
RowCells(idHeader, resHeader, id, resource, startCell, endCell) ==
  (idHeader :> id) @@ (resHeader :> resource)
  @@ ("Start Time" :> startCell) @@ ("End Time" :> endCell)

PlainRow(id, resource, startCell, endCell) ==
  RowCells("Order No.", "Resource", id, resource, startCell, endCell)

\* Rows as Papa.parse with dynamicTyping produces them: strings that parse or
\* do not, numbers (seconds), Dates, empty cells; a number beyond the range
\* of a Date and an ISO-shaped string that is no date (an Invalid Date).
LoadRowPool ==
  {PlainRow(<<"a", "1">>, <<"M", "2">>, StringCell(<<0>>), StringCell(<<2 * Hour>>)),
   PlainRow(<<"b">>, <<"M", "2">>, NumberCell(Num(1, 0, 3600)), DateCell(3 * Hour)),
   PlainRow(<<" ">>, <<"M", "2">>, StringCell(<<0>>), StringCell(<<2 * Hour>>)),
   PlainRow(<<"a", "1">>, <<>>, StringCell(<<0>>), StringCell(<<2 * Hour>>)),
   PlainRow(<<"a", "1">>, <<"M", "2">>, StringCell(<<>>), StringCell(<<2 * Hour>>)),
   PlainRow(<<"a", "1">>, <<"M", "2">>, StringCell(<<0>>), NullCell),
   PlainRow(<<"a", "1">>, <<"M", "2">>, StringCell(<<2 * Hour>>), StringCell(<<2 * Hour>>)),
   PlainRow(<<"a", "1">>, <<"M", "2">>, StringCell(<<0>>),
            NumberCell(Num(1, 87000000, 0))),
   PlainRow(<<"a", "1">>, <<"M", "2">>, DateCell(NaN), StringCell(<<2 * Hour>>))}

RenamedHeaders == <<"ID", "Maszyna", "Start Time", "End Time">>
NoResourceHeaders == <<"Order No.", "Start Time", "End Time">>

\* What Papa.parse hands to `complete`: the pool's rows under the usual
\* headers without parse errors, a one-row file with parse errors reported in
\* res.errors, a file with other header names, a file without a resource
\* column.
LoadFiles ==
  {[fields |-> PlainHeaders, data |-> d, errors |-> FALSE] :
     d \in UNION {[1..n -> LoadRowPool] : n \in 1..MaxLoadRows}}
  \cup {[fields |-> PlainHeaders, data |-> <<r>>, errors |-> TRUE] :
          r \in LoadRowPool}
  \cup {[fields |-> RenamedHeaders, errors |-> FALSE,
         data |-> <<RowCells("ID", "Maszyna", <<"a", "1">>, <<"M", "2">>,
                             StringCell(<<0>>), StringCell(<<2 * Hour>>))>>],
        [fields |-> NoResourceHeaders, errors |-> FALSE,
         data |-> <<("Order No." :> <<"a", "1">>)
                    @@ ("Start Time" :> StringCell(<<0>>))
                    @@ ("End Time" :> StringCell(<<2 * Hour>>))>>]}

\* onFile, the `error` callback of Papa.parse: alert(...)
OnFileError ==
  /\ alerts < MaxAlerts
  /\ alerts' = alerts + 1
  /\ lastParse' = <<[callback |-> "error", errors |-> TRUE]>>
  /\ UNCHANGED <<dataVars, viewVars, zoomVars, now, packVars, dateVars>>

InitLoad ==
  /\ Constructed
  /\ packIn = <<>>
  /\ packOut = <<>>
  /\ dateIn = <<>>
  /\ dateOut = <<>>

NextLoad ==
  \/ \E f \in LoadFiles : OnFile(f)
  \/ OnFileError
  \/ \E q \in {<<>>, <<"a">>} : SetQuery(q)
  \/ SliderChange(35)
  \/ \E r \in Range(machinesList) : ToggleMachine(r)
  \/ SetFromStr(<<2 * Hour>>)

SpecLoad == InitLoad /\ [][NextLoad]_vars

\* ------------------------------------------------------- claims: lane packer
\* The time two tasks share: min(end1, end2) - max(start1, start2).
Overlap(a, b) == Min2(a.end, b.end) - Max2(a.start, b.start)

\* A partition of the tasks into lanes 1..k, given as a lane per task index,
\* in which no two tasks of a lane overlap by more than 60,000 ms.
ValidLanes(tasks, f) ==
  \A i, j \in 1..Len(tasks) :
    (i < j /\ f[i] = f[j]) => Overlap(tasks[i], tasks[j]) <= 60000

\* The smallest number of lanes of a valid partition (1 for an empty list).
MinLanes(tasks) ==
  LET n == Len(tasks)
      ok(k) == \E f \in [1..n -> 1..k] : ValidLanes(tasks, f)
  IN  IF n = 0 THEN 1
      ELSE CHOOSE k \in 1..n : ok(k) /\ \A m \in 1..(k - 1) : ~ok(m)

LongerThanEps(tasks) ==
  \A i \in 1..Len(tasks) : tasks[i].end - tasks[i].start > 60000

\* C1: every task of the input receives a lane, and any two distinct tasks
\* that receive the same lane index overlap by at most 60,000 ms, whatever
\* the input order.
C1_LaneOverlapWithinEps ==
  packOut # <<>> =>
    LET p == packOut[1].placed
    IN  /\ Len(p) = Len(packIn)
        /\ \A k \in 1..Len(packIn) :
             Cardinality({i \in 1..Len(p) : p[i].task = packIn[k]})
               = Cardinality({i \in 1..Len(packIn) : packIn[i] = packIn[k]})
        /\ \A i, j \in 1..Len(p) :
             (i # j /\ p[i].lane = p[j].lane)
               => Overlap(p[i].task, p[j].task) <= 60000

\* C1 witness: three tasks given out of start order, two of them sharing a
\* lane while overlapping by exactly the tolerance.
C1_Witness ==
  /\ packOut # <<>>
  /\ Len(packIn) = 3
  /\ packIn[1].start > packIn[2].start
  /\ \E i, j \in 1..3 :
       /\ i # j
       /\ packOut[1].placed[i].lane = packOut[1].placed[j].lane
       /\ Overlap(packOut[1].placed[i].task, packOut[1].placed[j].task) = 60000

\* C2 as claimed: for every non-empty task list the number of lanes opened
\* is the smallest number of lanes of a valid partition.
C2_GreedyIsMinimal ==
  (packOut # <<>> /\ Len(packIn) > 0) =>
    packOut[1].laneCount = MinLanes(packIn)

\* C2 amended: when every task lasts longer than 60,000 ms, the number of
\* lanes opened is the smallest number of lanes of a valid partition.
C2_MinimalWhenLongerThanEps ==
  (packOut # <<>> /\ Len(packIn) > 0 /\ LongerThanEps(packIn)) =>
    packOut[1].laneCount = MinLanes(packIn)

\* C2 witness: three tasks longer than the tolerance, packed into two lanes,
\* with two overlapping tasks sharing a lane.
C2_Witness ==
  /\ packOut # <<>>
  /\ Len(packIn) = 3
  /\ LongerThanEps(packIn)
  /\ packOut[1].laneCount = 2
  /\ \E i, j \in 1..3 :
       /\ i # j
       /\ packOut[1].placed[i].lane = packOut[1].placed[j].lane
       /\ Overlap(packOut[1].placed[i].task, packOut[1].placed[j].task) > 0

\* --------------------------------------------------------------- claims: zoom
Abs(n) == IF n < 0 THEN -n ELSE n

\* Where the anchor instant of the last wheel step is drawn at the scale the
\* step set, measured from the left edge of the viewport: its content pixel
\* minus the scroll offset the handler emitted.
AnchorViewportX(w) ==
  PixelOf(w.domainMin, w.anchorTime, w.next) - w.newScrollLeft

\* C3 as claimed: after every ctrl+wheel step that changes the scale, the
\* anchor instant is drawn within 1 px of the cursor's viewport position.
C3_AnchorUnderCursor ==
  (lastWheel # <<>> /\ lastWheel[1].changed) =>
    Abs(AnchorViewportX(lastWheel[1]) - lastWheel[1].xRel) <= PxUnit

\* C3 amended: after every ctrl+wheel step that changes the scale, the anchor
\* instant is drawn within 1 px of the cursor's viewport position whenever
\* the anchor's content pixel at the new scale is not left of xRel (the
\* emitted offset is not floored at zero); every zoom-in step is such a step.
C3_AnchorUnderCursorUnlessFloored ==
  (lastWheel # <<>> /\ lastWheel[1].changed) =>
    LET w == lastWheel[1]
    IN  (\/ PixelOf(w.domainMin, w.anchorTime, w.next) >= w.xRel
         \/ w.next > w.readScale)
          => Abs(AnchorViewportX(w) - w.xRel) <= PxUnit

\* C3 witness: a zoom-out step at a scrolled position, cursor right of the
\* left edge, whose emitted offset is positive.
C3_Witness ==
  /\ lastWheel # <<>>
  /\ lastWheel[1].changed
  /\ lastWheel[1].deltaYPositive
  /\ lastWheel[1].xRel > 0
  /\ lastWheel[1].scrollBefore > 0
  /\ lastWheel[1].newScrollLeft > 0
  /\ lastWheel[1].newScrollLeft < lastWheel[1].scrollBefore

\* C4 as claimed: every wheel event computes its anchor from the most
\* recently set scale: the scale it reads is the current value of pxPerHour.
C4_WheelReadsLatestScale ==
  lastWheel # <<>> => lastWheel[1].readScale = lastWheel[1].latestScale

\* C5 as claimed: the scale stays in [30, 300], and a wheel step whose
\* rounded product is above 300 leaves the scale at 300, one whose rounded
\* product is below 30 leaves it at 30.
C5_ScaleClampedToNearestBound ==
  [][(/\ pxPerHour' \in 30..300
      /\ wheelCount' = wheelCount + 1 =>
           /\ lastWheel'[1].raw > 300 => pxPerHour' = 300
           /\ lastWheel'[1].raw < 30 => pxPerHour' = 30)]_vars

\* --------------------------------------------------------------- claims: view
Count(seq, x) == Cardinality({i \in DOMAIN seq : seq[i] = x})

Ascending(seq) == \A i \in 1..(Len(seq) - 1) : seq[i].start <= seq[i + 1].start

\* seq holds exactly the members of `keep` that `from` holds, as often.
HoldsExactly(seq, from, keep) ==
  /\ Range(seq) \subseteq Range(from)
  /\ \A t \in Range(from) : Count(seq, t) = IF t \in keep THEN Count(from, t) ELSE 0

IdEquals(t, q) == toLowerCase(t.id) = toLowerCase(q)
IdContains(t, q) == includes(toLowerCase(t.id), toLowerCase(q))

\* C6: for a query that is non-empty after trimming, the route is exactly the
\* tasks whose identifier equals the trimmed query ignoring case if there is
\* one, else exactly the tasks whose identifier contains it ignoring case;
\* in both cases ordered by start ascending.
C6_RoutePrecedence ==
  trim(query) # <<>> =>
    LET q == trim(query)
        exact == {t \in Range(allTasks) : IdEquals(t, q)}
        part == {t \in Range(allTasks) : IdContains(t, q)}
    IN  /\ exact # {} => HoldsExactly(routeTasks, allTasks, exact)
        /\ exact = {} => HoldsExactly(routeTasks, allTasks, part)
        /\ Ascending(routeTasks)

\* C6 witness: some identifier equals the query, another only contains it,
\* and the route has two steps.
C6_Witness ==
  /\ trim(query) # <<>>
  /\ \E t, u \in Range(allTasks) :
       /\ IdEquals(t, trim(query))
       /\ IdContains(u, trim(query)) /\ ~IdEquals(u, trim(query))
  /\ Len(routeTasks) = 2
  /\ routeTasks[1].start < routeTasks[2].start

\* A task the window excludes: window.from is set and the task ends at or
\* before it, or window.to is set and the task starts at or after it.
OutsideWindow(t) ==
  \/ fromStr # <<>> /\ t.end <= fromStr[1]
  \/ toStr # <<>> /\ t.start >= toStr[1]

PassesSelection(t) ==
  selectedMachines = <<>> \/ t.resource \in Range(selectedMachines)

\* C7: with an active route the visible tasks are exactly the route tasks
\* that pass the selection (if non-empty) and the time window, and the
\* resources to render are exactly the resources of the route tasks.
C7_RouteOnly ==
  routeTasks # <<>> =>
    /\ HoldsExactly(filtered, routeTasks,
                    {t \in Range(routeTasks) :
                       PassesSelection(t) /\ ~OutsideWindow(t)})
    /\ Range(machinesToRender) = {t.resource : t \in Range(routeTasks)}

\* C7 witness: a route, a task outside it on a selected resource inside the
\* window, a route task cut by the selection, and a visible route task.
C7_Witness ==
  /\ routeTasks # <<>>
  /\ selectedMachines # <<>>
  /\ fromStr # <<>>
  /\ filtered # <<>>
  /\ \E t \in Range(allTasks) :
       /\ t \notin Range(routeTasks)
       /\ PassesSelection(t) /\ ~OutsideWindow(t)
  /\ \E t \in Range(routeTasks) : ~PassesSelection(t)

\* C8: of the tasks that pass the route, selection and query filters, the
\* visible ones are exactly those the window does not exclude.
C8_WindowVisibility ==
  LET base == ByQuery(BySelection(IF routeTasks # <<>> THEN routeTasks
                                  ELSE allTasks, selectedMachines),
                      routeTasks, query)
  IN  HoldsExactly(filtered, base, {t \in Range(base) : ~OutsideWindow(t)})

\* C8 witness: both bounds set; a task ending exactly at window.from and one
\* starting exactly at window.to are hidden, one spanning both is visible.
C8_Witness ==
  /\ fromStr # <<>> /\ toStr # <<>>
  /\ \E t, u, v \in Range(allTasks) :
       /\ t.end = fromStr[1] /\ t \notin Range(filtered)
       /\ u.start = toStr[1] /\ u \notin Range(filtered)
       /\ v.start < fromStr[1] /\ v.end > toStr[1] /\ v \in Range(filtered)

SameTask(rect, t) ==
  /\ rect.id = t.id /\ rect.resource = t.resource
  /\ rect.start = t.start /\ rect.end = t.end

\* C9 as claimed: with an active route, routeRects has one entry for each
\* visible route task and none for a route task that is not visible, ordered
\* by start; n >= 2 entries give n - 1 connectors, fewer give none.
C9_ConnectorsJoinVisibleRoute ==
  routeTasks # <<>> =>
    /\ \A t \in Range(routeTasks) :
         Cardinality({i \in DOMAIN routeRects : SameTask(routeRects[i], t)})
           = Count(filtered, t)
    /\ Ascending(routeRects)
    /\ Len(connectors) = IF Len(routeRects) >= 2 THEN Len(routeRects) - 1 ELSE 0

\* C10 as claimed: the resources to render are the route's resources, else
\* the selection within the universe, else the universe, and the list is in
\* natural sort order.
C10_ResourcesToRenderSorted ==
  /\ routeTasks # <<>> =>
       Range(machinesToRender) = {t.resource : t \in Range(routeTasks)}
  /\ (routeTasks = <<>> /\ selectedMachines # <<>>) =>
       Range(machinesToRender) = Range(selectedMachines) \cap Range(machinesAll)
  /\ (routeTasks = <<>> /\ selectedMachines = <<>>) =>
       machinesToRender = machinesAll
  /\ \A i \in 1..(Len(machinesToRender) - 1) :
       localeCompare(machinesToRender[i], machinesToRender[i + 1]) < 0

\* ------------------------------------------------------------- claims: domain
\* C11 as claimed: whenever no task is visible, the domain is
\* [now - 12h, now + 12h] with each bound replaced by the window bound that
\* is set.
C11_EmptyViewDomain ==
  filtered = <<>> =>
    computedMinMax =
      [min |-> IF fromStr # <<>> THEN fromStr[1] ELSE now - 12 * Hour,
       max |-> IF toStr # <<>> THEN toStr[1] ELSE now + 12 * Hour]

\* ------------------------------------------------------------ claims: loading
MappingComplete ==
  /\ mapping.id # <<>> /\ mapping.start # <<>>
  /\ mapping.end # <<>> /\ mapping.resource # <<>>

\* The cell parses: toDate yields a Date that denotes an instant.
Parses(cell) == toDate(cell) # <<>> /\ toDate(cell)[1] # NaN

\* The row is valid: identifier and resource non-empty after trimming, both
\* dates parse, end strictly greater than start.
ValidRow(r) ==
  /\ trim(r[mapping.id[1]]) # <<>>
  /\ trim(r[mapping.resource[1]]) # <<>>
  /\ Parses(r[mapping.start[1]])
  /\ Parses(r[mapping.end[1]])
  /\ toDate(r[mapping.end[1]])[1] > toDate(r[mapping.start[1]])[1]

TaskOfRow(r) ==
  [id |-> trim(r[mapping.id[1]]), resource |-> trim(r[mapping.resource[1]]),
   start |-> toDate(r[mapping.start[1]])[1], end |-> toDate(r[mapping.end[1]])[1]]

\* C12 as claimed: the canonical list holds exactly one task for each valid
\* raw row and none for any other row; every canonical task has end > start
\* and non-empty identifier and resource; the list is empty when a mandatory
\* field is unmapped.
C12_CanonicalListValid ==
  /\ ~MappingComplete => allTasks = <<>>
  /\ MappingComplete =>
       /\ Len(allTasks) =
            Cardinality({i \in DOMAIN rawRows : ValidRow(rawRows[i])})
       /\ \A i \in DOMAIN rawRows :
            ValidRow(rawRows[i]) =>
              Count(allTasks, TaskOfRow(rawRows[i]))
                = Cardinality({j \in DOMAIN rawRows :
                                 /\ ValidRow(rawRows[j])
                                 /\ TaskOfRow(rawRows[j]) = TaskOfRow(rawRows[i])})
  /\ \A i \in DOMAIN allTasks :
       /\ allTasks[i].start # NaN /\ allTasks[i].end # NaN
       /\ allTasks[i].end > allTasks[i].start
       /\ allTasks[i].id # <<>> /\ allTasks[i].resource # <<>>

\* C13 as claimed: a load whose parse reports an error raises one user-facing
\* error and leaves the raw rows, the mapping and the view state unchanged.
C13_FailedLoadKeepsState ==
  [][((lastParse' # lastParse \/ alerts' # alerts)
       /\ (lastParse'[1].callback = "error" \/ lastParse'[1].errors))
      => (/\ alerts' = alerts + 1
          /\ UNCHANGED <<rawRows, mapping, query, pxPerHour,
                         selectedMachines, fromStr, toStr>>)]_vars

\* ----------------------------------------------------------- claims: geometry
\* width >= px for width = max(4, (end - start) * scale / 3,600,000), px > 4
AtLeastWide(t, scale, px) == (t.end - t.start) > (px * Hour - 1) \div scale

\* The height class the claim states: 40 from 220 px, 32 from 120 px, else 26.
ClaimedHeight(t, scale) ==
  IF AtLeastWide(t, scale, 220) THEN 40
  ELSE IF AtLeastWide(t, scale, 120) THEN 32
  ELSE 26

\* C14 as claimed: every task's height class is 40 when its width is at
\* least 220 px, 32 when it is at least 120 px and below 220 px, 26 otherwise.
C14_HeightClassFromWidth ==
  \A t \in Range(allTasks) :
    BarHeight(t, renderedPxPerHour) = ClaimedHeight(t, renderedPxPerHour)

\* ------------------------------------------------------------- claims: toDate
\* a = 1000 * v, on the representation of numbers
IsThousandTimes(a, v) ==
  /\ a.sign = v.sign
  /\ a.hi \div 1000 = v.hi
  /\ a.hi % 1000 = v.lo \div 100000
  /\ a.lo = (v.lo % 100000) * 1000

\* v < 10,000,000,000
InSecondsRange(v) == v.sign < 0 \/ v.hi < 100

\* -8.64e12 <= v <= 8.64e12 for a v in the seconds range, |v| <= 8.64e15 else:
\* the result is within the range of a Date.
InDateRange(v) ==
  IF InSecondsRange(v) THEN v.hi < 86400 \/ (v.hi = 86400 /\ v.lo = 0)
  ELSE v.hi < 86400000 \/ (v.hi = 86400000 /\ v.lo = 0)

\* C15 as claimed: every number below 10,000,000,000 yields the instant
\* v * 1000 ms and every number from 10,000,000,000 on yields the instant v ms.
C15_EpochDisambiguation ==
  dateOut # <<>> =>
    /\ dateOut[1].valid
    /\ InSecondsRange(dateIn) => IsThousandTimes(dateOut[1].time, dateIn)
    /\ ~InSecondsRange(dateIn) => dateOut[1].time = dateIn

\* C15 amended: the same for every number whose result lies within the range
\* of a Date (|instant| <= 8.64e15 ms); any other number yields an Invalid
\* Date, which denotes no instant.
C15_EpochDisambiguationInRange ==
  dateOut # <<>> =>
    /\ dateOut[1].valid <=> InDateRange(dateIn)
    /\ (InDateRange(dateIn) /\ InSecondsRange(dateIn)) =>
         IsThousandTimes(dateOut[1].time, dateIn)
    /\ (InDateRange(dateIn) /\ ~InSecondsRange(dateIn)) =>
         dateOut[1].time = dateIn

\* C15 witness: 1700000000 has resolved to the instant 1700000000000 ms, the
\* one toDate gives for 1700000000000.
C15_Witness ==
  /\ dateOut # <<>>
  /\ dateIn = Num(1, 17, 0)
  /\ dateOut[1] = [valid |-> TRUE, time |-> Num(1, 17000, 0)]
  /\ dateOut[1] = toDateNumber(Num(1, 17000, 0))

\* ---------------------------------------------------------- claims: first fit
\* The position (1-based) of input task i in ascending start order, ties in
\* input order.
StartRank(tasks, i) ==
  1 + Cardinality({j \in DOMAIN tasks :
                     \/ tasks[j].start < tasks[i].start
                     \/ tasks[j].start = tasks[i].start /\ j < i})

\* The lanes opened before the k-th placement, and the end time recorded for
\* lane l then: the end of the task placed in it last.
OpenBefore(p, k) == {p[j].lane : j \in 1..(k - 1)}

RecordedEnd(p, k, l) ==
  p[CHOOSE j \in 1..(k - 1) :
      /\ p[j].lane = l
      /\ \A m \in 1..(k - 1) : p[m].lane = l => m <= j].task.end

LowOf(m) == IF fromStr # <<>> /\ fromStr[1] < m THEN fromStr[1] ELSE m
HighOf(m) == IF toStr # <<>> /\ toStr[1] > m THEN toStr[1] ELSE m

\* C17: when a task is visible the domain is
\* [min(m, window.from) - 1h, max(M, window.to) + 1h] for m, M the least start
\* and greatest end of the visible tasks; every visible task has
\* domain.min + 1h <= start and end + 1h <= domain.max, and its left pixel
\* coordinate is not negative.
C17_DomainOfVisibleTasks ==
  filtered # <<>> =>
    LET m == CHOOSE x \in {t.start : t \in Range(filtered)} :
               \A t \in Range(filtered) : x <= t.start
        M == CHOOSE x \in {t.end : t \in Range(filtered)} :
               \A t \in Range(filtered) : x >= t.end
    IN  /\ computedMinMax = [min |-> LowOf(m) - 3600000, max |-> HighOf(M) + 3600000]
        /\ \A t \in Range(filtered) :
             /\ computedMinMax.min + 3600000 <= t.start
             /\ t.end + 3600000 <= computedMinMax.max
             /\ TimeToPixel(t.start, renderedPxPerHour) >= 0
        /\ routeTasks # <<>> => Range(filtered) \subseteq Range(routeTasks)

\* C17 witness: an active route with a visible route task and a task outside
\* the route that starts earlier; window.from below the least visible start,
\* so that the domain starts 1 h before window.from.
C17_Witness ==
  /\ routeTasks # <<>>
  /\ filtered # <<>>
  /\ \E t \in Range(allTasks) :
       /\ t \notin Range(routeTasks)
       /\ \A u \in Range(filtered) : t.start < u.start
  /\ fromStr # <<>>
  /\ \A u \in Range(filtered) : fromStr[1] < u.start
  /\ computedMinMax.min = fromStr[1] - 3600000

\* ------------------------------------------------------- claims: row geometry
\* The tasks the layout of resource r places in lane l (0-based).
TasksInLane(r, l) ==
  {layouts[r].tasks[i].task :
     i \in {j \in DOMAIN layouts[r].tasks : layouts[r].tasks[j].lane = l}}

\* C18 as claimed: for every rendered resource with L >= 1 lanes, lane i's
\* height is the greatest height class (40 from 220 px, 32 from 120 px, else
\* 26) of its tasks, lane 0 starts 10 px below the row top, each next lane
\* 6 px below the previous one, and the row is 10 + sum + 6 * (L - 1) + 10
\* high; a rendered resource without a visible task is 46 high; each row's
\* top is the sum of the heights before it; bars in different lanes or rows
\* do not overlap vertically.
C18_RowGeometry ==
  /\ \A k \in DOMAIN machinesToRender :
       LET r == machinesToRender[k]
       IN  /\ r \in DOMAIN layouts =>
                LET lay == layouts[r]
                    L == Len(lay.laneHeights)
                IN  /\ L >= 1
                    /\ Len(lay.laneTops) = L
                    /\ \A i \in 1..L :
                         lay.laneHeights[i] =
                           SetMax({ClaimedHeight(t, renderedPxPerHour) :
                                     t \in TasksInLane(r, i - 1)})
                    /\ lay.laneTops[1] = 10
                    /\ \A i \in 1..(L - 1) :
                         lay.laneTops[i + 1] = lay.laneTops[i] + lay.laneHeights[i] + 6
                    /\ rowHeights[k] = 10 + SumSeq(lay.laneHeights) + 6 * (L - 1) + 10
           /\ r \notin DOMAIN layouts => rowHeights[k] = 46
           /\ rowTops[k] = SumSeq(SubSeq(rowHeights, 1, k - 1))
  /\ \A b, c \in bars :
       (b.row # c.row \/ b.lane # c.lane) =>
         (b.top + b.barH <= c.top \/ c.top + c.barH <= b.top)

\* -------------------------------------------------- claims: whitespace query
\* The visible tasks for the present task list, selection and window if the
\* query were "".
VisibleWithEmptyQuery ==
  FilterSeq(allTasks,
            {t \in Range(allTasks) : PassesSelection(t) /\ ~OutsideWindow(t)})

\* C19 as claimed: a query that is empty after trimming activates no route
\* and leaves the visible tasks those of the empty query.
C19_BlankQueryIsEmptyQuery ==
  trim(query) = <<>> =>
    /\ routeTasks = <<>>
    /\ filtered = VisibleWithEmptyQuery

====
